---------------------------- MODULE Spec2Model ----------------------------
(***************************************************************************)
(* A model of catheter_ukf: the manifold state algebra (statespace.py),    *)
(* the unscented transform (unscented.py), the Riemannian UKF core         *)
(* (riemannian_ukf.py) and the filter facade (ukf.py).                     *)
(*                                                                         *)
(* Arithmetic.  The state algebra works on float64 and needs sin, cos,     *)
(* arcsin and square roots, so it is modelled in decimal fixed point: the  *)
(* integer n stands for the real n / SCALE.  Every product and quotient is *)
(* rounded to the nearest unit, as a float operation rounds to the nearest *)
(* float; equalities of reals are therefore stated up to a tolerance.      *)
(* The unscented transform is linear algebra over the reals and is         *)
(* modelled in exact rational arithmetic (a rational is <<num, den>>).     *)
(*                                                                         *)
(* Arrays.  predict, update and filter pass numpy arrays by reference and  *)
(* write into some of them in place, so the filter is modelled over a      *)
(* store of arrays: a call allocates the arrays it builds, writes into     *)
(* arrays through their references, and returns references.                *)
(***************************************************************************)
EXTENDS Integers, Sequences, FiniteSets, TLC

\* op, inp, mid, out: the last function applied, its inputs, and the results
\* of the first and of the second function applied.
\* ukf, heap, caller, frame, pc, ret, ncalls, call: one UKF instance, the
\* arrays that exist, the arrays the calling loop holds, the locals of a
\* running filter call, the position in the calling loop, the pair returned by
\* the last call, the number of calls made and the arguments of the last call.
VARIABLES op, inp, mid, out, ukf, heap, caller, frame, pc, ret, ncalls, call

harnessVars == <<op, inp, mid, out>>

machineVars == <<ukf, heap, caller, frame, pc, ret, ncalls, call>>

vars == <<op, inp, mid, out, ukf, heap, caller, frame, pc, ret, ncalls, call>>

\* no UKF instance has been constructed
NoInstance ==
    /\ ukf = <<>>
    /\ heap = <<>>
    /\ caller = <<>>
    /\ frame = <<>>
    /\ pc = "none"
    /\ ret = <<>>
    /\ ncalls = 0
    /\ call = <<>>

(***************************************************************************)
(* Fixed point                                                             *)
(***************************************************************************)
SCALE == 10 * 1000

Abs(a) == IF a < 0 THEN -a ELSE a

Sgn(a) == IF a < 0 THEN -1 ELSE 1

\* a / b rounded to the nearest integer (b # 0), halves away from zero
RoundDiv(a, b) == Sgn(a) * Sgn(b) * ((2 * Abs(a) + Abs(b)) \div (2 * Abs(b)))

\* the float product a * b
Mul(a, b) ==
    LET A == Abs(a)
        B == Abs(b)
    IN  Sgn(a) * Sgn(b) * ((A \div SCALE) * B + ((A % SCALE) * B + SCALE \div 2) \div SCALE)

\* the float quotient a / b
Div(a, b) ==
    LET A == Abs(a)
        B == Abs(b)
        q == A \div B
        r == A % B
    IN  Sgn(a) * Sgn(b) * (q * SCALE + (2 * r * SCALE + B) \div (2 * B))

Fx(n) == n * SCALE

Half == SCALE \div 2

\* pi and pi/2 (355/113 is pi to 3e-7)
Pi == (355 * SCALE) \div 113

HalfPi == (355 * SCALE) \div 226

RECURSIVE ISqrtIter(_, _)
ISqrtIter(n, y) ==
    LET y2 == (y + n \div y) \div 2
    IN  IF y2 >= y THEN y ELSE ISqrtIter(n, y2)

\* floor of the square root of the integer n >= 0
ISqrtFloor(n) == IF n < 2 THEN n ELSE ISqrtIter(n, n \div 2 + 1)

\* the square root of the integer n >= 0, rounded to the nearest integer
ISqrt(n) ==
    LET f == ISqrtFloor(n)
    IN  IF n - f * f > f THEN f + 1 ELSE f

RECURSIVE SinTerms(_, _, _, _)
SinTerms(term, k, x2, acc) ==
    IF term = 0 \/ k > 25 THEN acc
    ELSE LET t == RoundDiv(Mul(term, x2), (k + 1) * (k + 2))
         IN  SinTerms(-t, k + 2, x2, acc + (-t))

\* numpy.sin / numpy.cos as the quaternion exponential uses them
Sin(x) == SinTerms(x, 1, Mul(x, x), x)

Cos(x) == SinTerms(Fx(1), 0, Mul(x, x), Fx(1))

RECURSIVE ArcsinBisect(_, _, _)
ArcsinBisect(s, lo, hi) ==
    IF hi - lo <= 1
    THEN IF Abs(Sin(hi) - s) < Abs(Sin(lo) - s) THEN hi ELSE lo
    ELSE LET m == (lo + hi) \div 2
         IN  IF Sin(m) <= s THEN ArcsinBisect(s, m, hi)
                            ELSE ArcsinBisect(s, lo, m)

\* numpy.arcsin returns nan outside [-1, 1]; NaN poisons whatever uses it
NaN == -(1000 * 1000 * 1000)

\* arcsin on [0, 1]; near 1, where sin is flat, through the cosine
Arcsin(s) ==
    IF s > Fx(1) \/ s < 0 THEN NaN
    ELSE IF 2 * s * s > SCALE * SCALE
         THEN HalfPi - ArcsinBisect(ISqrt(SCALE * SCALE - s * s), 0, HalfPi)
         ELSE ArcsinBisect(s, 0, HalfPi)

(***************************************************************************)
(* 3-vectors and 3x3 matrices (a matrix is the tuple of its rows)          *)
(***************************************************************************)
Zero3 == <<0, 0, 0>>

VAdd(a, b) == <<a[1] + b[1], a[2] + b[2], a[3] + b[3]>>

VSub(a, b) == <<a[1] - b[1], a[2] - b[2], a[3] - b[3]>>

VScale(k, a) == <<Mul(k, a[1]), Mul(k, a[2]), Mul(k, a[3])>>

VDivS(a, k) == <<Div(a[1], k), Div(a[2], k), Div(a[3], k)>>

\* numpy.dot
Dot(a, b) == Mul(a[1], b[1]) + Mul(a[2], b[2]) + Mul(a[3], b[3])

\* numpy.cross
Cross(a, b) ==
    << Mul(a[2], b[3]) - Mul(a[3], b[2]),
       Mul(a[3], b[1]) - Mul(a[1], b[3]),
       Mul(a[1], b[2]) - Mul(a[2], b[1]) >>

\* numpy.linalg.norm(v, ord=2)
Norm(v) == ISqrt(v[1] * v[1] + v[2] * v[2] + v[3] * v[3])

\* numpy.matmul(R, v)
MatVec(R, v) == <<Dot(R[1], v), Dot(R[2], v), Dot(R[3], v)>>

Transpose(R) ==
    << <<R[1][1], R[2][1], R[3][1]>>,
       <<R[1][2], R[2][2], R[3][2]>>,
       <<R[1][3], R[2][3], R[3][3]>> >>

Det(R) == Dot(R[1], Cross(R[2], R[3]))

\* numpy.linalg.solve(R, v): Cramer's rule on the columns of R
Solve(R, v) ==
    LET C == Transpose(R)
        d == Det(R)
    IN  << Div(Dot(v, Cross(C[2], C[3])), d),
           Div(Dot(C[1], Cross(v, C[3])), d),
           Div(Dot(C[1], Cross(C[2], v)), d) >>

(***************************************************************************)
(* statespace.py: states are 18-tuples (x, v, a, q, w, u)                  *)
(***************************************************************************)
\* quaternion.from_rotation_vector: exp of the pure quaternion x/2, that is
\* (cos(t/2), sin(t/2) x/t) with t = |x|, and the unit quaternion for x = 0
from_rotation_vector(x) ==
    LET t == Norm(x)
        h == t \div 2
    IN  IF t = 0 THEN <<Fx(1), 0, 0, 0>>
        ELSE LET s == Sin(h)
             IN  <<Cos(h), Div(Mul(s, x[1]), t), Div(Mul(s, x[2]), t), Div(Mul(s, x[3]), t)>>

\* quaternion.as_rotation_matrix of a unit quaternion (w, x, y, z)
as_rotation_matrix(k) ==
    LET w == k[1]
        x == k[2]
        y == k[3]
        z == k[4]
    IN  << << Fx(1) - 2 * (Mul(y, y) + Mul(z, z)), 2 * (Mul(x, y) - Mul(z, w)), 2 * (Mul(x, z) + Mul(y, w)) >>,
           << 2 * (Mul(x, y) + Mul(z, w)), Fx(1) - 2 * (Mul(x, x) + Mul(z, z)), 2 * (Mul(y, z) - Mul(x, w)) >>,
           << 2 * (Mul(x, z) - Mul(y, w)), 2 * (Mul(y, z) + Mul(x, w)), Fx(1) - 2 * (Mul(x, x) + Mul(y, y)) >> >>

Rot(base, v) == as_rotation_matrix(from_rotation_vector(Cross(base, v)))

Exp(base, v) == MatVec(Rot(base, v), base)

\* numpy.isclose(s, 0.0): |s| <= atol = 1e-8, below the model's resolution
IsCloseZero(s) == s = 0

\* Log without the arcsin(s)/s factor: the projection of p on the tangent plane
Log_projection(base, p) == Cross(Cross(base, p), base)

Log(base, p) ==
    LET v == Cross(Cross(base, p), base)
        s == Norm(v)
    IN  IF IsCloseZero(s) THEN Zero3
        ELSE VScale(Div(Arcsin(s), s), v)

pack_local_state(x, v, a, q, w, u) == x \o v \o a \o q \o w \o u

\* pack_global_state without the projection
pack_global_state_unprojected(x, v, a, q, w, u) == x \o v \o a \o q \o w \o u

pack_global_state(x, v, a, q0, w0, u0) ==
    LET q == VDivS(q0, Norm(q0))
        w == VSub(w0, VScale(Dot(w0, q), q))
        u == VSub(u0, VScale(Dot(u0, q), q))
    IN  x \o v \o a \o q \o w \o u

\* unpack_state(s)[k], the k-th field of s (1 = x, ..., 6 = u)
unpack_state(s, k) == SubSeq(s, 3 * k - 2, 3 * k)

sx(s) == unpack_state(s, 1)

sv(s) == unpack_state(s, 2)

sa(s) == unpack_state(s, 3)

sq(s) == unpack_state(s, 4)

sw(s) == unpack_state(s, 5)

su(s) == unpack_state(s, 6)

\* evolve_state carrying w along without the angular acceleration's part
evolve_state_dropped_u(s, dt) ==
    LET hdt2 == Mul(Half, Mul(dt, dt))
        R == Rot(sq(s), VAdd(VScale(dt, sw(s)), VScale(hdt2, su(s))))
    IN  pack_global_state(
            VAdd(VAdd(sx(s), VScale(dt, sv(s))), VScale(hdt2, sa(s))),
            VAdd(sv(s), VScale(dt, sa(s))),
            sa(s),
            MatVec(R, sq(s)),
            MatVec(R, sw(s)),
            MatVec(R, su(s)))

evolve_state(s, dt) ==
    LET hdt2 == Mul(Half, Mul(dt, dt))
        R == Rot(sq(s), VAdd(VScale(dt, sw(s)), VScale(hdt2, su(s))))
    IN  pack_global_state(
            VAdd(VAdd(sx(s), VScale(dt, sv(s))), VScale(hdt2, sa(s))),
            VAdd(sv(s), VScale(dt, sa(s))),
            sa(s),
            MatVec(R, sq(s)),
            MatVec(R, VAdd(sw(s), VScale(dt, su(s)))),
            MatVec(R, su(s)))

\* global_to_local taking the angular offsets without rotating back to the base
global_to_local_unrotated(base, g) ==
    pack_local_state(
        VSub(sx(g), sx(base)),
        VSub(sv(g), sv(base)),
        VSub(sa(g), sa(base)),
        Log(sq(base), sq(g)),
        VSub(sw(g), sw(base)),
        VSub(su(g), su(base)))

global_to_local(base, g) ==
    LET lq == Log(sq(base), sq(g))
        R == Rot(sq(base), lq)
    IN  pack_local_state(
            VSub(sx(g), sx(base)),
            VSub(sv(g), sv(base)),
            VSub(sa(g), sa(base)),
            lq,
            VSub(Solve(R, sw(g)), sw(base)),
            VSub(Solve(R, su(g)), su(base)))

\* local_to_global adding the angular offsets after the rotation, not before
local_to_global_offset_after(base, l) ==
    LET R == Rot(sq(base), sq(l))
    IN  pack_global_state(
            VAdd(sx(base), sx(l)),
            VAdd(sv(base), sv(l)),
            VAdd(sa(base), sa(l)),
            Exp(sq(base), sq(l)),
            VAdd(MatVec(R, sw(base)), sw(l)),
            VAdd(MatVec(R, su(base)), su(l)))

local_to_global(base, l) ==
    LET R == Rot(sq(base), sq(l))
    IN  pack_global_state(
            VAdd(sx(base), sx(l)),
            VAdd(sv(base), sv(l)),
            VAdd(sa(base), sa(l)),
            Exp(sq(base), sq(l)),
            MatVec(R, VAdd(sw(base), sw(l))),
            MatVec(R, VAdd(su(base), su(l))))

local_identity(base) == [i \in 1..18 |-> 0]

pack_observation(a, b) == a \o b

observe_state(s, coil_offset) ==
    pack_observation(VAdd(sx(s), VScale(coil_offset, sq(s))),
                     VSub(sx(s), VScale(coil_offset, sq(s))))

tip_from_state(s, tip_offset) == VAdd(sx(s), VScale(tip_offset, sq(s)))

(***************************************************************************)
(* Tolerances of the fixed-point comparisons                               *)
(***************************************************************************)
\* two reals agree (numpy.testing.assert_almost_equal in the tests)
Tol == 25

Close(a, b) == Abs(a - b) <= Tol

CloseSeq(a, b) == Len(a) = Len(b) /\ \A i \in 1..Len(a) : Close(a[i], b[i])

(***************************************************************************)
(* Sphere maps: Log(b, p) then Exp(b, Log(b, p)), and Exp(b, v) alone      *)
(* (tests/test_statespace.py, TestGeometricFuncs)                          *)
(***************************************************************************)
e1 == <<Fx(1), 0, 0>>

e2 == <<0, Fx(1), 0>>

e3 == <<0, 0, Fx(1)>>

VNeg(a) == <<-a[1], -a[2], -a[3]>>

\* v / |v|, as pack_global_state and estimate_initial_state normalise
Normalise(v) == VDivS(v, Norm(v))

\* unit directions: the axes, Pythagorean directions, normalised diagonals
Dirs ==
    << e1, e2, e3,
       <<6000, 8000, 0>>, <<0, 6000, 8000>>, <<8000, 0, 6000>>,
       <<4800, 6000, 6400>>, Normalise(<<Fx(1), Fx(1), 0>>),
       Normalise(<<Fx(1), Fx(1), Fx(1)>>), <<-8000, 6000, 0>>,
       VNeg(e1), <<0, -6000, -8000>>, Normalise(<<Fx(2), Fx(-1), Fx(1)>>) >>

\* how many of Dirs the sphere-map harness draws from
NDirs == 12

UnitVecs == {Dirs[i] : i \in 1..NDirs}

\* tangent increments for Exp alone: the scenarios of the tests
ExpInputs ==
    { [b |-> e1, p |-> e2, v |-> <<0, HalfPi, 0>>],
      [b |-> e2, p |-> e1, v |-> <<HalfPi, 0, 0>>],
      [b |-> e3, p |-> e1, v |-> <<HalfPi, 0, 0>>],
      [b |-> e1, p |-> <<6000, 8000, 0>>, v |-> <<0, Arcsin(8000), 0>>] }

InitGeo ==
    /\ NoInstance
    /\ op = "input"
    /\ inp \in [b : UnitVecs, p : UnitVecs, v : {Zero3}] \cup ExpInputs
    /\ mid = Zero3
    /\ out = Zero3

\* ab = Log(a, b)
GeoLog ==
    /\ op = "input"
    /\ inp.v = Zero3
    /\ mid' = Log(inp.b, inp.p)
    /\ op' = "Log"
    /\ UNCHANGED <<inp, out, machineVars>>

\* b = Exp(a, ab) on the logarithm just computed
GeoExpLog ==
    /\ op = "Log"
    /\ out' = Exp(inp.b, mid)
    /\ op' = "ExpLog"
    /\ UNCHANGED <<inp, mid, machineVars>>

\* b = Exp(a, ab) on a given tangent increment
GeoExp ==
    /\ op = "input"
    /\ inp.v # Zero3
    /\ out' = Exp(inp.b, inp.v)
    /\ op' = "Exp"
    /\ UNCHANGED <<inp, mid, machineVars>>

NextGeo == GeoLog \/ GeoExpLog \/ GeoExp

SpecGeo == InitGeo /\ [][NextGeo]_vars

\* the geodesic angle between unit vectors b and p with p.b >= 0
GeodesicAngle(b, p) ==
    LET d == Dot(b, p)
    IN  IF 2 * d > SCALE THEN Arcsin(Norm(Cross(b, p)))
        ELSE HalfPi - Arcsin(d)

\* C8: for unit vectors b and p with p.b >= 0, Log(b, p) is tangent at b, its
\* norm is the geodesic angle between b and p, and Exp(b, Log(b, p)) = p; and
\* Exp(e1, (0, pi/2, 0)) = e2, Log(e1, e2) = (0, pi/2, 0),
\* Exp(e2, (pi/2, 0, 0)) = e1, Log(e2, e1) = (pi/2, 0, 0).
C8_ExpLogInverse ==
    /\ (op \in {"Log", "ExpLog"} /\ Dot(inp.b, inp.p) >= 0) =>
           /\ Abs(Dot(mid, inp.b)) <= Tol
           /\ Close(Norm(mid), GeodesicAngle(inp.b, inp.p))
    /\ (op = "ExpLog" /\ Dot(inp.b, inp.p) >= 0) => CloseSeq(out, inp.p)
    /\ (op = "Exp" /\ inp.b = e1 /\ inp.v = <<0, HalfPi, 0>>) => CloseSeq(out, e2)
    /\ (op = "Exp" /\ inp.b = e2 /\ inp.v = <<HalfPi, 0, 0>>) => CloseSeq(out, e1)
    /\ (op = "Log" /\ inp.b = e1 /\ inp.p = e2) => CloseSeq(mid, <<0, HalfPi, 0>>)
    /\ (op = "Log" /\ inp.b = e2 /\ inp.p = e1) => CloseSeq(mid, <<HalfPi, 0, 0>>)

\* a logarithm between two distinct, non-orthogonal directions has been taken
\* and mapped back by Exp
C8_Witness ==
    /\ op = "ExpLog"
    /\ inp.b = <<6000, 8000, 0>>
    /\ inp.p = <<0, 6000, 8000>>
    /\ mid # Zero3

(***************************************************************************)
(* On-manifold states for the harnesses, built as the code builds them: by *)
(* pack_global_state from raw fields                                       *)
(***************************************************************************)
\* raw angular rates and accelerations (projected on the tangent plane at q)
RawRates == << Zero3, e2, <<3000, -5000, 4000>>, <<-2000, 1000, 7000>> >>

\* how many directions and how many raw rates the state sets draw from
NPoseDirs == 6

NRates == 3

PoseDirs == {Dirs[i] : i \in 1..NPoseDirs}

Rates == {RawRates[i] : i \in 1..NRates}

TestX == <<Fx(1), Fx(2), Fx(3)>>

TestV == <<Fx(4), Fx(5), Fx(6)>>

\* the state of TestGlobalRepr.setUp with a = 0 and u = 0
TestState == TestX \o TestV \o Zero3 \o e1 \o e2 \o Zero3

ManifoldStates ==
    {TestState} \cup
    { pack_global_state(TestX, v, a, q, w, u) :
        v \in {Zero3, TestV}, a \in {Zero3, <<5000, -10000, 2500>>},
        q \in PoseDirs, w \in Rates, u \in {Zero3, <<0, 2000, -3000>>} }

OnManifold(s) ==
    /\ Close(Norm(sq(s)), Fx(1))
    /\ Abs(Dot(sw(s), sq(s))) <= Tol
    /\ Abs(Dot(su(s), sq(s))) <= Tol

(***************************************************************************)
(* evolve_state (tests/test_statespace.py, TestGlobalRepr.test_evolve)     *)
(***************************************************************************)
Steps == {0, Half, Fx(1), Fx(2)}

InitEvolve ==
    /\ NoInstance
    /\ op = "input"
    /\ inp \in [s : ManifoldStates, dt : Steps]
    /\ mid = Zero3
    /\ out = Zero3

\* s2 = evolve_state(s, dt)
Evolve ==
    /\ op = "input"
    /\ out' = evolve_state(inp.s, inp.dt)
    /\ op' = "evolve_state"
    /\ UNCHANGED <<inp, mid, machineVars>>

NextEvolve == Evolve

SpecEvolve == InitEvolve /\ [][NextEvolve]_vars

\* the rotation of v by the angle t about the unit axis k (Rodrigues' formula)
RotateAbout(k, t, v) ==
    VAdd(VAdd(VScale(Cos(t), v), VScale(Sin(t), Cross(k, v))),
         VScale(Mul(Dot(k, v), Fx(1) - Cos(t)), k))

\* cos 1 and sin 1 to four decimals (numpy.cos(1), numpy.sin(1) of the test)
Cos1 == 5403

Sin1 == 8415

\* C9: for every on-manifold s and timestep dt, evolve_state(s, dt) returns
\* x' = x + dt v + dt^2 a / 2, v' = v + dt a, a' = a, q' = R q,
\* w' = R (w + dt u), u' = R u, with R the rotation by the angle
\* |dt w + dt^2 u / 2| about the axis q x (dt w + dt^2 u / 2); for
\* x = (1,2,3), v = (4,5,6), a = 0, q = e1, w = e2, u = 0 and dt = 1 that is
\* x' = (5,7,9), v' = (4,5,6), q' = (cos 1, sin 1, 0), w' = (-sin 1, cos 1, 0).
C9_EvolveState ==
    op = "evolve_state" =>
        LET s == inp.s
            dt == inp.dt
            om == VAdd(VScale(dt, sw(s)), VScale(Mul(Mul(dt, dt), Half), su(s)))
            t == Norm(om)
            ax == Cross(sq(s), om)
            k == IF Norm(ax) = 0 THEN e1 ELSE Normalise(ax)
        IN  /\ CloseSeq(sx(out), VAdd(VAdd(sx(s), VScale(dt, sv(s))),
                                      VScale(Mul(Mul(dt, dt), Half), sa(s))))
            /\ CloseSeq(sv(out), VAdd(sv(s), VScale(dt, sa(s))))
            /\ sa(out) = sa(s)
            /\ CloseSeq(sq(out), RotateAbout(k, t, sq(s)))
            /\ CloseSeq(sw(out), RotateAbout(k, t, VAdd(sw(s), VScale(dt, su(s)))))
            /\ CloseSeq(su(out), RotateAbout(k, t, su(s)))
            /\ (s = TestState /\ dt = Fx(1)) =>
                   /\ sx(out) = <<Fx(5), Fx(7), Fx(9)>>
                   /\ sv(out) = <<Fx(4), Fx(5), Fx(6)>>
                   /\ CloseSeq(sq(out), <<Cos1, Sin1, 0>>)
                   /\ CloseSeq(sw(out), <<-Sin1, Cos1, 0>>)

\* a state with non-zero acceleration, angular rate and angular acceleration
\* has been evolved over a non-zero timestep
C9_Witness ==
    /\ op = "evolve_state"
    /\ inp.dt = Fx(2)
    /\ sa(inp.s) # Zero3
    /\ sw(inp.s) # Zero3
    /\ su(inp.s) # Zero3
    /\ sq(out) # sq(inp.s)

(***************************************************************************)
(* Chart conversion (tests/test_statespace.py, TestLocalRepr): either      *)
(* global_to_local then local_to_global, or the other way round            *)
(***************************************************************************)
\* bases: on-manifold states at each pose direction
Bases ==
    {TestState} \cup
    { pack_global_state(TestX, TestV, Zero3, q, RawRates[3], <<0, 2000, -3000>>) :
        q \in PoseDirs }

\* raw local offsets of the translational fields
LocalXs == {Zero3, <<Fx(1), -5000, 2500>>}

\* raw 3-vectors from which local lq, lw and lu are drawn
LocalRaw == {Zero3, <<0, 4000, 0>>, <<0, 0, -14000>>, <<3000, 0, 0>>, <<2000, -3000, 6000>>}

\* the part of v tangent at q, as a caller builds a tangent vector
TangentPart(q, v) == VSub(v, VScale(Dot(v, q), q))

\* local vectors at base b: lq tangent at b.q, lw and lu either tangent or raw
LocalsAt(b) ==
    { pack_local_state(lx, lx, Zero3, TangentPart(sq(b), lq), lw, lu) :
        lx \in LocalXs, lq \in LocalRaw,
        lw \in LocalRaw \cup {TangentPart(sq(b), r) : r \in LocalRaw},
        lu \in {Zero3, <<3000, 0, 0>>, TangentPart(sq(b), <<2000, -3000, 6000>>)} }

InitChart ==
    /\ NoInstance
    /\ op = "input"
    /\ \E b \in Bases :
          \/ inp \in [base : {b}, g : ManifoldStates, l : {local_identity(b)}, first : {"global_to_local"}]
          \/ inp \in [base : {b}, g : {b}, l : LocalsAt(b), first : {"local_to_global"}]
    /\ mid = local_identity(inp.base)
    /\ out = local_identity(inp.base)

\* l = global_to_local(s, g)
ChartToLocal ==
    /\ op = "input"
    /\ inp.first = "global_to_local"
    /\ mid' = global_to_local(inp.base, inp.g)
    /\ op' = "global_to_local"
    /\ UNCHANGED <<inp, out, machineVars>>

\* g = local_to_global(s, l) on the local vector just computed
ChartToLocalBack ==
    /\ op = "global_to_local"
    /\ out' = local_to_global(inp.base, mid)
    /\ op' = "local_to_global.global_to_local"
    /\ UNCHANGED <<inp, mid, machineVars>>

\* g = local_to_global(s, l)
ChartToGlobal ==
    /\ op = "input"
    /\ inp.first = "local_to_global"
    /\ mid' = local_to_global(inp.base, inp.l)
    /\ op' = "local_to_global"
    /\ UNCHANGED <<inp, out, machineVars>>

\* l = global_to_local(s, g) on the global state just computed
ChartToGlobalBack ==
    /\ op = "local_to_global"
    /\ out' = global_to_local(inp.base, mid)
    /\ op' = "global_to_local.local_to_global"
    /\ UNCHANGED <<inp, mid, machineVars>>

NextChart == ChartToLocal \/ ChartToLocalBack \/ ChartToGlobal \/ ChartToGlobalBack

SpecChart == InitChart /\ [][NextChart]_vars

IsTangent(v, q) == Abs(Dot(v, q)) <= Tol

\* C2: for on-manifold b and g with g.q in the open hemisphere of b.q,
\* local_to_global(b, global_to_local(b, g)) equals g in all six fields, and
\* global_to_local(s, s) is the zero vector.
C2_GlobalRoundTrip ==
    /\ ( /\ op = "local_to_global.global_to_local"
         /\ OnManifold(inp.base)
         /\ OnManifold(inp.g)
         /\ Dot(sq(inp.g), sq(inp.base)) > 0 ) => CloseSeq(out, inp.g)
    /\ (op = "global_to_local" /\ inp.g = inp.base) => mid = local_identity(inp.base)

\* a global state whose direction differs from the base's, in its open
\* hemisphere, with a non-zero local angular rate, has gone there and back
C2_Witness ==
    /\ op = "local_to_global.global_to_local"
    /\ OnManifold(inp.base)
    /\ OnManifold(inp.g)
    /\ Dot(sq(inp.g), sq(inp.base)) > 0
    /\ Dot(sq(inp.g), sq(inp.base)) < Fx(1) - Tol
    /\ sq(mid) # Zero3
    /\ sw(mid) # Zero3
    /\ su(mid) # Zero3

\* lq is a small tangent vector at the base's q
SmallTangent(l, b) == IsTangent(sq(l), sq(b)) /\ Norm(sq(l)) < HalfPi

\* C3 as claimed: for on-manifold b and small l with lq tangent at b.q, lw and
\* lu arbitrary, global_to_local(b, local_to_global(b, l)) equals l.
C3_LocalRoundTripAnyOffsets ==
    ( /\ op = "global_to_local.local_to_global"
      /\ OnManifold(inp.base)
      /\ SmallTangent(inp.l, inp.base) ) => CloseSeq(out, inp.l)

\* C3 amended: for on-manifold b and small l with lq, lw and lu all tangent at
\* b.q, global_to_local(b, local_to_global(b, l)) equals l in all six fields,
\* and local_to_global(s, 0) equals s.
C3_LocalRoundTripTangent ==
    /\ ( /\ op = "global_to_local.local_to_global"
         /\ OnManifold(inp.base)
         /\ SmallTangent(inp.l, inp.base)
         /\ IsTangent(sw(inp.l), sq(inp.base))
         /\ IsTangent(su(inp.l), sq(inp.base)) ) => CloseSeq(out, inp.l)
    /\ (op = "local_to_global" /\ inp.l = local_identity(inp.base)) =>
           CloseSeq(mid, inp.base)

\* a local vector with non-zero tangent lq, lw and lu has gone there and back
C3_Witness ==
    /\ op = "global_to_local.local_to_global"
    /\ OnManifold(inp.base)
    /\ SmallTangent(inp.l, inp.base)
    /\ IsTangent(sw(inp.l), sq(inp.base))
    /\ IsTangent(su(inp.l), sq(inp.base))
    /\ Norm(sq(inp.l)) > Fx(1)
    /\ Norm(sw(inp.l)) > Half
    /\ Norm(su(inp.l)) > Half

(***************************************************************************)
(* Exact rationals <<n, d>>, d > 0, in lowest terms                        *)
(***************************************************************************)
RECURSIVE GCD(_, _)
GCD(a, b) == IF b = 0 THEN a ELSE GCD(b, a % b)

Rat(n, d) ==
    LET g == GCD(Abs(n), Abs(d))
    IN  IF n = 0 THEN <<0, 1>> ELSE <<Sgn(d) * (n \div g), Abs(d) \div g>>

RInt(n) == <<n, 1>>

RAdd(a, b) ==
    LET g == GCD(a[2], b[2])
    IN  Rat(a[1] * (b[2] \div g) + b[1] * (a[2] \div g), (a[2] \div g) * b[2])

RNeg(a) == <<-a[1], a[2]>>

RSub(a, b) == RAdd(a, RNeg(b))

RMul(a, b) ==
    LET g1 == GCD(Abs(a[1]), b[2])
        g2 == GCD(Abs(b[1]), a[2])
    IN  IF a[1] = 0 \/ b[1] = 0 THEN <<0, 1>>
        ELSE <<(a[1] \div g1) * (b[1] \div g2), (a[2] \div g2) * (b[2] \div g1)>>

RDiv(a, b) == RMul(a, Rat(b[2], b[1]))

RECURSIVE RSumRange(_, _, _)
\* f[lo] + ... + f[hi], summed pairwise
RSumRange(f, lo, hi) ==
    IF lo > hi THEN RInt(0)
    ELSE IF lo = hi THEN f[lo]
    ELSE RAdd(RSumRange(f, lo, (lo + hi) \div 2), RSumRange(f, (lo + hi) \div 2 + 1, hi))

\* f[1] + ... + f[n]
RSum(f, n) == RSumRange(f, 1, n)

\* vectors are sequences of rationals, matrices sequences of rows
RVec(v) == [i \in 1..Len(v) |-> RInt(v[i])]

RMat(A) == [i \in 1..Len(A) |-> RVec(A[i])]

RMatScale(k, A) == [i \in 1..Len(A) |-> [j \in 1..Len(A[i]) |-> RMul(k, A[i][j])]]

RMatMul(A, B) ==
    [i \in 1..Len(A) |->
        [j \in 1..Len(B[1]) |->
            RSum([k \in 1..Len(B) |-> RMul(A[i][k], B[k][j])], Len(B))]]

Column(A, k) == [i \in 1..Len(A) |-> A[i][k]]

(***************************************************************************)
(* unscented.py                                                            *)
(***************************************************************************)
\* the largest dimension whose square roots are tabulated
MaxDim == 4

\* the dimension of the filter's state (statespace.py, 18 parameters)
StateDim == 18

\* symmetric positive-semidefinite 2x2 integer blocks (a, c >= 0, ac >= b^2)
Core2 ==
    { B \in { << <<a, b>>, <<b, c>> >> : a \in 0..2, c \in 0..2, b \in -1..2 } :
        B[1][1] * B[2][2] >= B[1][2] * B[1][2] }
    \cup { << <<6, 3>>, <<3, 6>> >> }

\* the matrix of dimension M with block B in its leading rows and columns and
\* the diagonal entries d after it
BlockDiag(B, d, M) ==
    [i \in 1..M |->
        [j \in 1..M |->
            IF i <= Len(B) /\ j <= Len(B) THEN B[i][j]
            ELSE IF i = j THEN d[i - Len(B)] ELSE 0]]

ScalarMat(k, M) == [i \in 1..M |-> [j \in 1..M |-> IF i = j THEN k ELSE 0]]

RECURSIVE ISumRange(_, _, _)
ISumRange(f, lo, hi) ==
    IF lo > hi THEN 0
    ELSE IF lo = hi THEN f[lo]
    ELSE ISumRange(f, lo, (lo + hi) \div 2) + ISumRange(f, (lo + hi) \div 2 + 1, hi)

ISum(f, n) == ISumRange(f, 1, n)

IntMatMul(A, B) ==
    [i \in 1..Len(A) |->
        [j \in 1..Len(B[1]) |-> ISum([k \in 1..Len(B) |-> A[i][k] * B[k][j]], Len(B))]]

\* symmetric positive-semidefinite integer matrices of dimension M: the domain
\* on which the model knows scipy.linalg.sqrtm
PSDPool(M) ==
    {ScalarMat(k, M) : k \in 0..2} \cup
    ( IF M = 1 \/ M > MaxDim THEN {}
      ELSE { BlockDiag(B, d, M) : B \in Core2, d \in [1..(M - 2) -> 0..1] } ) \cup
    ( IF M = 3 THEN { << <<2, 1, 0>>, <<1, 2, 1>>, <<0, 1, 2>> >> } ELSE {} )

\* scipy.linalg.sqrtm then numpy.real, on a symmetric positive-semidefinite A:
\* the principal square root, the positive-semidefinite S with S S = A
sqrtm(A) == RMat(CHOOSE B \in PSDPool(Len(A)) : RMat(IntMatMul(B, B)) = A)

\* sigmas_from_stats with "sigmas[:, 2::2] += sqrt_Q": both halves on one side
sigmas_from_stats_one_sided(x, P, h) ==
    LET M == Len(P)
        sqrt_Q == sqrtm(RMatScale(RAdd(RInt(M), h), P))
        n == 2 * M + 1
    IN  [ sigmas |->
            [c \in 1..n |->
                IF c = 1 THEN x
                ELSE [i \in 1..M |-> RAdd(x[i], Column(sqrt_Q, c \div 2)[i])]],
          weights |->
            [c \in 1..n |->
                IF c = 1 THEN RDiv(h, RAdd(h, RInt(M)))
                ELSE RDiv(RInt(1), RMul(RInt(2), RAdd(h, RInt(M))))] ]

\* sigmas_from_stats without "weights[0] = h / (h + M)"
sigmas_from_stats_uniform_weights(x, P, h) ==
    LET M == Len(P)
        sqrt_Q == sqrtm(RMatScale(RAdd(RInt(M), h), P))
        n == 2 * M + 1
    IN  [ sigmas |->
            [c \in 1..n |->
                IF c = 1 THEN x
                ELSE IF c % 2 = 0
                     THEN [i \in 1..M |-> RAdd(x[i], Column(sqrt_Q, c \div 2)[i])]
                     ELSE [i \in 1..M |-> RSub(x[i], Column(sqrt_Q, c \div 2)[i])]],
          weights |->
            [c \in 1..n |-> RDiv(RInt(1), RMul(RInt(2), RAdd(h, RInt(M))))] ]

\* sigmas (the sequence of the 2M+1 columns) and weights
sigmas_from_stats(x, P, h) ==
    LET M == Len(P)
        sqrt_Q == sqrtm(RMatScale(RAdd(RInt(M), h), P))
        n == 2 * M + 1
    IN  [ sigmas |->
            [c \in 1..n |->
                IF c = 1 THEN x
                ELSE IF c % 2 = 0
                     THEN [i \in 1..M |-> RAdd(x[i], Column(sqrt_Q, c \div 2)[i])]
                     ELSE [i \in 1..M |-> RSub(x[i], Column(sqrt_Q, c \div 2)[i])]],
          weights |->
            [c \in 1..n |->
                IF c = 1 THEN RDiv(h, RAdd(h, RInt(M)))
                ELSE RDiv(RInt(1), RMul(RInt(2), RAdd(h, RInt(M))))] ]

\* numpy.average(sigmas, weights=weights, axis=1)
average(sigmas, weights) ==
    LET n == Len(sigmas)
        w_sum == RSum(weights, n)
    IN  [i \in 1..Len(sigmas[1]) |->
            RDiv(RSum([c \in 1..n |-> RMul(weights[c], sigmas[c][i])], n), w_sum)]

\* numpy.cov(sigmas, aweights=weights, bias=1); a single variable gives a
\* 0-d array (numpy.cov squeezes), here the 1x1 matrix's only entry
cov(sigmas, weights) ==
    LET n == Len(sigmas)
        M == Len(sigmas[1])
        avg == average(sigmas, weights)
        w_sum == RSum(weights, n)
        X == [c \in 1..n |-> [i \in 1..M |-> RSub(sigmas[c][i], avg[i])]]
        C == [i \in 1..M |->
                [j \in 1..M |->
                    RDiv(RSum([c \in 1..n |-> RMul(RMul(X[c][i], weights[c]), X[c][j])], n),
                         w_sum)]]
    IN  IF M = 1 THEN C[1][1] ELSE C

stats_from_sigmas(sigmas, weights) ==
    [x |-> average(sigmas, weights), P |-> cov(sigmas, weights)]

\* spreads h > 0: the facade's default 1e-4, the test's range, and others
Spreads == {Rat(1, 10000), Rat(1, 100), Rat(1, 2), RInt(5)}

\* the mean of dimension M: all ones (the test's), or mixed
Means(M) ==
    { [i \in 1..M |-> RInt(1)],
      [i \in 1..M |-> IF i % 2 = 1 THEN Rat(-7, 2) ELSE Rat(i, 3)] }

\* the covariances P with (M + h) P = S S for S in the pool
Covariances(M, h) ==
    { RMatScale(RDiv(RInt(1), RAdd(RInt(M), h)), RMat(IntMatMul(S, S))) :
        S \in PSDPool(M) }

\* the covariance of the test: rank 2, two zero rows and columns
TestP == RMat(<< <<5, 4, 0, 0>>, <<4, 5, 0, 0>>, <<0, 0, 0, 0>>, <<0, 0, 0, 0>> >>)

\* the facade's default spread (UKF.__init__, h=0.0001)
DefaultH == Rat(1, 10000)

\* every small dimension with every spread; the test's case; and the filter's
\* own use: the local identity of dimension 18 with the default spread
UnscentedInputs ==
    UNION { [x : Means(M), P : Covariances(M, h), h : {h}] :
              M \in 1..MaxDim, h \in Spreads }
    \cup [x : Means(4), P : {TestP}, h : {RInt(5)}]
    \cup [x : {[i \in 1..StateDim |-> RInt(0)]},
          P : {RMatScale(RDiv(RInt(1), RAdd(RInt(StateDim), DefaultH)), RMat(ScalarMat(k, StateDim))) : k \in 0..1},
          h : {DefaultH}]

InitUnscented ==
    /\ NoInstance
    /\ op = "input"
    /\ inp \in UnscentedInputs
    /\ mid = <<>>
    /\ out = <<>>

\* sigmas, weights = sigmas_from_stats(self.x, self.P, h)
SigmasFromStats ==
    /\ op = "input"
    /\ mid' = sigmas_from_stats(inp.x, inp.P, inp.h)
    /\ op' = "sigmas_from_stats"
    /\ UNCHANGED <<inp, out, machineVars>>

\* x, P = stats_from_sigmas(sigmas, weights)
StatsFromSigmas ==
    /\ op = "sigmas_from_stats"
    /\ out' = stats_from_sigmas(mid.sigmas, mid.weights)
    /\ op' = "stats_from_sigmas"
    /\ UNCHANGED <<inp, mid, machineVars>>

NextUnscented == SigmasFromStats \/ StatsFromSigmas

SpecUnscented == InitUnscented /\ [][NextUnscented]_vars

\* the covariance c that numpy.cov returned is the matrix P
SameCov(c, P) == IF Len(P) = 1 THEN c = P[1][1] ELSE c = P

\* C4: for every mean x, every symmetric positive-semidefinite P (rank
\* deficient, with zero rows and columns, included) and every spread h > 0,
\* stats_from_sigmas(sigmas_from_stats(x, P, h)) returns the mean x and the
\* covariance P.
C4_StatsRoundTrip ==
    op = "stats_from_sigmas" => (out.x = inp.x /\ SameCov(out.P, inp.P))

\* the round trip of the test's covariance (rank 2 of 4, off-diagonal entries,
\* two zero rows and columns) is complete
C4_Witness ==
    /\ op = "stats_from_sigmas"
    /\ inp.P = TestP
    /\ inp.x = [i \in 1..4 |-> RInt(1)]

\* C10: for every spread h > 0 and every dimension M >= 1, sigmas_from_stats
\* returns 2M+1 sigma points and 2M+1 weights, w0 = h/(h+M), every other
\* weight 1/(2(h+M)), and the weights sum to exactly 1.
C10_Weights ==
    op = "sigmas_from_stats" =>
        LET M == Len(inp.P)
            hM == RAdd(inp.h, RInt(M))
        IN  /\ Len(mid.sigmas) = 2 * M + 1
            /\ \A c \in 1..(2 * M + 1) : Len(mid.sigmas[c]) = M
            /\ Len(mid.weights) = 2 * M + 1
            /\ RMul(mid.weights[1], hM) = inp.h
            /\ \A c \in 2..(2 * M + 1) : RMul(mid.weights[c], RMul(RInt(2), hM)) = RInt(1)
            /\ RSum(mid.weights, 2 * M + 1) = RInt(1)

\* the filter's own call: dimension 18, the default spread, 37 sigma points
C10_Witness ==
    /\ op = "sigmas_from_stats"
    /\ Len(inp.P) = StateDim
    /\ inp.h = DefaultH
    /\ Len(mid.weights) = 37

(***************************************************************************)
(* Arrays.  A numpy array is an object, and a function that is handed an   *)
(* array can write into it.  heap maps every reference to a cell           *)
(* [kind, val]; a call allocates the arrays it builds, writes in place     *)
(* where the code writes in place, and returns references.                 *)
(***************************************************************************)
\* the sequence f, enumerated
Array(f) == <<>> \o f

NRefs == 32

Refs == 1..NRefs

FreeCell == [kind |-> "free", val |-> <<>>]

Cell(k, v) == [kind |-> k, val |-> v]

\* the arrays hp without the arrays `gone`
Drop(hp, gone) == Array([r \in Refs |-> IF r \in gone THEN FreeCell ELSE hp[r]])

\* a new array holding v (numpy.zeros, numpy.concatenate, A @ B, A + B, ...)
Alloc(hp, k, v) ==
    LET r == CHOOSE i \in Refs : hp[i].kind = "free" /\ \A j \in 1..(i - 1) : hp[j].kind # "free"
    IN  [heap |-> [hp EXCEPT ![r] = Cell(k, v)], ref |-> r]

\* a write into the array r (A[...] = v, A += v, A -= v)
Store(hp, r, v) == [hp EXCEPT ![r].val = v]

\* the arrays that are left when a call entered with the arrays hp0 returns
\* the references `kept` from hp1: its other new arrays are dropped
Return(hp0, hp1, kept) ==
    Array([r \in Refs |-> IF hp0[r].kind = "free" /\ r \notin kept THEN FreeCell ELSE hp1[r]])

(***************************************************************************)
(* Covariances.  An 18 x 18 covariance is kept as the expression that      *)
(* computes it: the diagonal it started from and the transformations       *)
(* applied to it since, each with the chart bases, the timestep, the       *)
(* spread, the noise and the gain it used.  Two covariances with the same  *)
(* expression are the same matrix.  The expression keeps its last          *)
(* MaxHistory transformations and the number of the older ones.            *)
(***************************************************************************)
MaxHistory == 12

Event(fn, lift, proj, dt, hh, noise, K) ==
    [fn |-> fn, lift |-> lift, proj |-> proj, dt |-> dt, h |-> hh, noise |-> noise, K |-> K]

Cov(d, hs) == [init |-> d, older |-> 0, hist |-> hs]

Then(c, ev) ==
    IF Len(c.hist) < MaxHistory THEN [c EXCEPT !.hist = Append(@, ev)]
    ELSE [c EXCEPT !.older = @ + 1, !.hist = Append(Tail(@), ev)]

\* a matrix of sigma points: the statistics (mean, c) it was generated from
\* with the spread hh, and the map its columns have been sent through since
\* ("none", or lifted at `lift`, then "evolve"d by dt / "observe"d /
\* nothing, then projected at `proj`)
Sig(mean, c, hh, map, lift, dt, proj) ==
    [mean |-> mean, cov |-> c, h |-> hh, map |-> map, lift |-> lift, dt |-> dt, proj |-> proj]

NoCov == Cov(<<>>, <<>>)

\* a decimal float m * 10^e, m in fixed point: the noise variances span
\* 1e-12 .. 1
Dec(m, e) == <<m, e>>

DecMul(a, b) == Dec(Mul(a[1], b[1]), a[2] + b[2])

(***************************************************************************)
(* unscented.py on arrays.  The frame of sigmas_from_stats holds the       *)
(* arrays (heap) and the locals x, P, h, M, sqrt_Q, sigmas, weights.       *)
(***************************************************************************)
\* M = P.shape[0]; sqrt_Q = numpy.real(scipy.linalg.sqrtm((M + h) * P))
sfs_sqrt_Q(f) ==
    CHOOSE g \in {
        LET a == Alloc(m.heap, "sqrt", m.heap[m.P].val)
        IN  [m EXCEPT !.heap = a.heap, !.sqrt_Q = a.ref, !.M = Len(m.heap[m.P].val.init)] : m \in {f}} : TRUE

\* sigmas = numpy.repeat(numpy.reshape(x, (len(x), 1)), (2 * M) + 1, axis=1)
sfs_sigmas(f) ==
    CHOOSE g \in {
        LET a == Alloc(m.heap, "sigmas", Sig(m.heap[m.x].val, NoCov, m.h, "none", <<>>, 0, <<>>))
        IN  [m EXCEPT !.heap = a.heap, !.sigmas = a.ref] : m \in {f}} : TRUE

\* sigmas[:, 1::2] += sqrt_Q; sigmas[:, 2::2] -= sqrt_Q
sfs_spread(f) ==
    CHOOSE g \in {
        [m EXCEPT !.heap = Store(m.heap, m.sigmas, [m.heap[m.sigmas].val EXCEPT !.cov = m.heap[m.sqrt_Q].val])] : m \in {f}} : TRUE

\* weights = numpy.repeat(1.0 / (2 * (h + M)), 2 * M + 1)
sfs_weights(f) ==
    CHOOSE g \in {
        LET wi == RDiv(RInt(1), RMul(RInt(2), RAdd(m.h, RInt(m.M))))
            a == Alloc(m.heap, "weights", Array([c \in 1..(2 * m.M + 1) |-> wi]))
        IN  [m EXCEPT !.heap = a.heap, !.weights = a.ref] : m \in {f}} : TRUE

\* weights[0] = h / (h + M)
sfs_weights0(f) ==
    CHOOSE g \in {
        [m EXCEPT !.heap = Store(m.heap, m.weights,
                                 [m.heap[m.weights].val EXCEPT ![1] = RDiv(m.h, RAdd(m.h, RInt(m.M)))])] : m \in {f}} : TRUE

\* sigmas_from_stats(x, P, h) on the arrays hp: the arrays after the call
\* and the references (sigmas, weights) it returns
Unscented_sigmas_from_stats(hp, x, P, h) ==
    sfs_weights0(sfs_weights(sfs_spread(sfs_sigmas(sfs_sqrt_Q(
        [heap |-> hp, x |-> x, P |-> P, h |-> h, M |-> 0, sqrt_Q |-> 0, sigmas |-> 0, weights |-> 0])))))

\* x = numpy.average(sigmas, axis=1, weights=weights)
stats_x(f) ==
    CHOOSE g \in {
        LET a == Alloc(m.heap, "mean", m.heap[m.sigmas].val.mean)
        IN  [m EXCEPT !.heap = a.heap, !.x = a.ref] : m \in {f}} : TRUE

\* P = numpy.cov(sigmas, aweights=weights, bias=1): the covariance of
\* transformed sigma points is the covariance they were generated from,
\* transformed
stats_P(f) ==
    CHOOSE g \in {
        LET s == m.heap[m.sigmas].val
            a == Alloc(m.heap, "cov", Then(s.cov, Event(s.map, s.lift, s.proj, s.dt, s.h, <<>>, <<>>)))
        IN  [m EXCEPT !.heap = a.heap, !.P = a.ref] : m \in {f}} : TRUE

\* stats_from_sigmas(sigmas, weights) on the arrays hp: the arrays after the
\* call and the references (x, P) it returns
Unscented_stats_from_sigmas(hp, sigmas, weights) ==
    stats_P(stats_x(
        [heap |-> hp, sigmas |-> sigmas, weights |-> weights, x |-> 0, P |-> 0]))

(***************************************************************************)
(* statespace.local_transition_cov on arrays.  The frame holds the arrays  *)
(* and the locals s, Q, q, P, and the array returned (ret).                *)
(***************************************************************************)
\* I - q q^T
Projector(q) ==
    Array([i \in 1..3 |-> Array([j \in 1..3 |-> (IF i = j THEN Fx(1) ELSE 0) - Mul(q[i], q[j])])])

\* the 3 x 3 block B D B^T for a diagonal block D of decimals with one exponent
ProjectBlock(B, D) ==
    Array([i \in 1..3 |-> Array([j \in 1..3 |->
        Dec(Mul(Mul(B[i][1], D[1][1]), B[j][1]) + Mul(Mul(B[i][2], D[2][1]), B[j][2])
                + Mul(Mul(B[i][3], D[3][1]), B[j][3]), D[1][2])])])

\* _, _, _, q, _, _ = unpack_state(s); P = numpy.eye(18)
ltc_eye(f) ==
    CHOOSE g \in {
        LET a == Alloc(m.heap, "eye", [w |-> Projector(Zero3), u |-> Projector(Zero3)])
        IN  [m EXCEPT !.heap = a.heap, !.P = a.ref, !.q = sq(m.heap[m.s].val)] : m \in {f}} : TRUE

\* P[12:15, 12:15] -= numpy.outer(q, q)
ltc_w(f) ==
    CHOOSE g \in {
        [m EXCEPT !.heap = Store(m.heap, m.P, [m.heap[m.P].val EXCEPT !.w = Projector(m.q)])] : m \in {f}} : TRUE

\* P[15:18, 15:18] -= numpy.outer(q, q)
ltc_u(f) ==
    CHOOSE g \in {
        [m EXCEPT !.heap = Store(m.heap, m.P, [m.heap[m.P].val EXCEPT !.u = Projector(m.q)])] : m \in {f}} : TRUE

\* return P @ Q @ P.T, for a diagonal Q: the diagonal of Q in the x, v, a,
\* q blocks and the projected blocks of w and u
ltc_return(f) ==
    CHOOSE g \in {
        LET E == m.heap[m.P].val
            D == m.heap[m.Q].val
            a == Alloc(m.heap, "noise", [diag |-> SubSeq(D, 1, 12),
                                         w |-> ProjectBlock(E.w, SubSeq(D, 13, 15)),
                                         u |-> ProjectBlock(E.u, SubSeq(D, 16, 18))])
        IN  [m EXCEPT !.heap = a.heap, !.ret = a.ref] : m \in {f}} : TRUE

States_local_transition_cov(hp, s, Q) ==
    ltc_return(ltc_u(ltc_w(ltc_eye(
        [heap |-> hp, s |-> s, Q |-> Q, q |-> Zero3, P |-> 0, ret |-> 0]))))

(***************************************************************************)
(* riemannian_ukf.py on arrays.  The frame of predict holds the arrays and *)
(* the locals x, P, Q, dt, statespace, unscented, xt, local_x,             *)
(* local_sigmas, w, Pt, and the covariance returned (ret).                 *)
(***************************************************************************)
\* xt = statespace.evolve_state(x, dt)
predict_xt(f) ==
    CHOOSE g \in {
        LET a == Alloc(m.heap, "state", evolve_state(m.heap[m.x].val, m.dt))
        IN  [m EXCEPT !.heap = a.heap, !.xt = a.ref] : m \in {f}} : TRUE

\* local_x = statespace.local_identity(x)
predict_local_x(f) ==
    CHOOSE g \in {
        LET a == Alloc(m.heap, "local", local_identity(m.heap[m.x].val))
        IN  [m EXCEPT !.heap = a.heap, !.local_x = a.ref] : m \in {f}} : TRUE

\* local_sigmas, w = unscented.sigmas_from_stats(local_x, P)
predict_sigmas(f) ==
    CHOOSE g \in {
        LET r == Unscented_sigmas_from_stats(m.heap, m.local_x, m.P, m.unscented.h)
        IN  [m EXCEPT !.heap = r.heap, !.local_sigmas = r.sigmas, !.w = r.weights] : m \in {f}} : TRUE

\* the loop: for every column, g = local_to_global(x, column),
\* g = evolve_state(g, dt), local_sigmas[:, i] = global_to_local(xt, g)
predict_loop(f) ==
    CHOOSE g \in {
        [m EXCEPT !.heap = Store(m.heap, m.local_sigmas,
                                 [m.heap[m.local_sigmas].val EXCEPT !.map = "evolve", !.lift = m.heap[m.x].val,
                                                                   !.dt = m.dt, !.proj = m.heap[m.xt].val])] : m \in {f}} : TRUE

\* _, Pt = unscented.stats_from_sigmas(local_sigmas, w)
predict_Pt(f) ==
    CHOOSE g \in {
        LET r == Unscented_stats_from_sigmas(m.heap, m.local_sigmas, m.w)
        IN  [m EXCEPT !.heap = r.heap, !.Pt = r.P] : m \in {f}} : TRUE

\* Pt + dt * statespace.local_transition_cov(xt, Q)
predict_return(f) ==
    CHOOSE g \in {
        LET n == States_local_transition_cov(m.heap, m.xt, m.Q)
            a == Alloc(n.heap, "cov",
                       Then(n.heap[m.Pt].val,
                            Event("add_noise", <<>>, n.heap[m.xt].val, m.dt, <<>>, n.heap[n.ret].val, <<>>)))
        IN  [m EXCEPT !.heap = a.heap, !.ret = a.ref] : m \in {f}} : TRUE

\* predict(x, P, Q, dt, statespace, unscented) on the arrays hp: the arrays
\* after the call and the references (xt, ret) it returns
predict(hp, x, P, Q, dt, statespace, unscented) ==
    predict_return(predict_Pt(predict_loop(predict_sigmas(predict_local_x(predict_xt(
        [heap |-> hp, x |-> x, P |-> P, Q |-> Q, dt |-> dt, statespace |-> statespace,
        unscented |-> unscented, xt |-> 0, local_x |-> 0, local_sigmas |-> 0, w |-> 0, Pt |-> 0, ret |-> 0]))))))

(***************************************************************************)
(* The frame of update holds the arrays and the locals x, P, R, z,         *)
(* statespace, unscented, local_x, local_sigmas, w, os, S, C, K,           *)
(* new_local_x, new_x, new_P, new_local_sigmas.  The gain K = C @ inv(S)   *)
(* is an 18 x 6 matrix computed from the sigma points; its value is the    *)
(* parameter gain.                                                         *)
(***************************************************************************)
\* z - o for two observations
Innovation(z, o) ==
    VSub(SubSeq(z, 1, 3), SubSeq(o, 1, 3)) \o VSub(SubSeq(z, 4, 6), SubSeq(o, 4, 6))

\* K @ y for an 18 x 6 gain K and an innovation y
GainTimes(K, y) ==
    Array([i \in 1..18 |-> Mul(K[i][1], y[1]) + Mul(K[i][2], y[2]) + Mul(K[i][3], y[3])
                             + Mul(K[i][4], y[4]) + Mul(K[i][5], y[5]) + Mul(K[i][6], y[6])])

\* local_x = statespace.local_identity(x)
update_local_x(f) ==
    CHOOSE g \in {
        LET a == Alloc(m.heap, "local", local_identity(m.heap[m.x].val))
        IN  [m EXCEPT !.heap = a.heap, !.local_x = a.ref] : m \in {f}} : TRUE

\* local_sigmas, w = unscented.sigmas_from_stats(local_x, P)
update_sigmas(f) ==
    CHOOSE g \in {
        LET r == Unscented_sigmas_from_stats(m.heap, m.local_x, m.P, m.unscented.h)
        IN  [m EXCEPT !.heap = r.heap, !.local_sigmas = r.sigmas, !.w = r.weights] : m \in {f}} : TRUE

\* os = numpy.zeros((6, local_sigmas.shape[1]))
update_os(f) ==
    CHOOSE g \in {
        LET a == Alloc(m.heap, "sigmas", Sig(<<>>, NoCov, 0, "none", <<>>, 0, <<>>))
        IN  [m EXCEPT !.heap = a.heap, !.os = a.ref] : m \in {f}} : TRUE

\* the loop: for every column, g = local_to_global(x, column),
\* os[:, i] = observe_state(g)
update_observe(f) ==
    CHOOSE g \in {
        [m EXCEPT !.heap = Store(m.heap, m.os,
                                 [m.heap[m.local_sigmas].val EXCEPT !.map = "observe", !.lift = m.heap[m.x].val])] : m \in {f}} : TRUE

\* _, S = unscented.stats_from_sigmas(os, w)
update_S(f) ==
    CHOOSE g \in {
        LET r == Unscented_stats_from_sigmas(m.heap, m.os, m.w)
        IN  [m EXCEPT !.heap = r.heap, !.S = r.P] : m \in {f}} : TRUE

\* S = S + R
update_S_plus_R(f) ==
    CHOOSE g \in {
        LET a == Alloc(m.heap, "cov",
                       Then(m.heap[m.S].val, Event("add_noise", <<>>, <<>>, Fx(1), <<>>, m.heap[m.R].val, <<>>)))
        IN  [m EXCEPT !.heap = a.heap, !.S = a.ref] : m \in {f}} : TRUE

\* C = local_sigmas @ (w * os).T
update_C(f) ==
    CHOOSE g \in {
        LET a == Alloc(m.heap, "cross", [sigmas |-> m.heap[m.local_sigmas].val, os |-> m.heap[m.os].val])
        IN  [m EXCEPT !.heap = a.heap, !.C = a.ref] : m \in {f}} : TRUE

\* K = C @ numpy.linalg.inv(S)
update_K(f) ==
    CHOOSE g \in {
        LET a == Alloc(m.heap, "gain", m.gain)
        IN  [m EXCEPT !.heap = a.heap, !.K = a.ref] : m \in {f}} : TRUE

\* new_local_x = K @ (z - statespace.observe_state(x))
update_new_local_x(f) ==
    CHOOSE g \in {
        LET y == Innovation(m.heap[m.z].val, observe_state(m.heap[m.x].val, m.statespace.coil_offset))
            a == Alloc(m.heap, "local", GainTimes(m.heap[m.K].val, y))
        IN  [m EXCEPT !.heap = a.heap, !.new_local_x = a.ref] : m \in {f}} : TRUE

\* new_x = statespace.local_to_global(x, new_local_x)
update_new_x(f) ==
    CHOOSE g \in {
        LET a == Alloc(m.heap, "state", local_to_global(m.heap[m.x].val, m.heap[m.new_local_x].val))
        IN  [m EXCEPT !.heap = a.heap, !.new_x = a.ref] : m \in {f}} : TRUE

\* update with `P -= K @ S @ K.T; new_P = P`
update_new_P_in_place(f) ==
    CHOOSE g \in {
        LET hs == m.heap[m.S].val.hist
        IN  [m EXCEPT !.heap = Store(m.heap, m.P,
                                     Then(m.heap[m.P].val, Event("correct", hs[Len(hs) - 1].lift, <<>>, 0,
                                                                 hs[Len(hs) - 1].h, hs[Len(hs)].noise,
                                                                 m.heap[m.K].val))),
                      !.new_P = m.P] : m \in {f}} : TRUE

\* new_P = P - K @ S @ K.T; S is the covariance of the observed sigma
\* points plus R
update_new_P(f) ==
    CHOOSE g \in {
        LET hs == m.heap[m.S].val.hist
            a == Alloc(m.heap, "cov",
                       Then(m.heap[m.P].val, Event("correct", hs[Len(hs) - 1].lift, <<>>, 0,
                                                   hs[Len(hs) - 1].h, hs[Len(hs)].noise, m.heap[m.K].val)))
        IN  [m EXCEPT !.heap = a.heap, !.new_P = a.ref] : m \in {f}} : TRUE

\* new_P = 0.5 * (new_P + new_P.T)
update_symmetrize(f) ==
    CHOOSE g \in {
        LET a == Alloc(m.heap, "cov", m.heap[m.new_P].val)
        IN  [m EXCEPT !.heap = a.heap, !.new_P = a.ref] : m \in {f}} : TRUE

\* new_local_sigmas, w = unscented.sigmas_from_stats(local_x, new_P)
update_new_sigmas(f) ==
    CHOOSE g \in {
        LET r == Unscented_sigmas_from_stats(m.heap, m.local_x, m.new_P, m.unscented.h)
        IN  [m EXCEPT !.heap = r.heap, !.new_local_sigmas = r.sigmas, !.w = r.weights] : m \in {f}} : TRUE

\* update with `new_local_sigmas[:, i] = global_to_local(x, g)`
update_rebase_at_input(f) ==
    CHOOSE g \in {
        [m EXCEPT !.heap = Store(m.heap, m.new_local_sigmas,
                                 [m.heap[m.new_local_sigmas].val EXCEPT !.map = "rebase", !.lift = m.heap[m.x].val,
                                                                       !.proj = m.heap[m.x].val])]
        : m \in {f}} : TRUE

\* the loop: for every column, g = local_to_global(x, column),
\* new_local_sigmas[:, i] = global_to_local(new_x, g)
update_rebase(f) ==
    CHOOSE g \in {
        [m EXCEPT !.heap = Store(m.heap, m.new_local_sigmas,
                                 [m.heap[m.new_local_sigmas].val EXCEPT !.map = "rebase", !.lift = m.heap[m.x].val,
                                                                       !.proj = m.heap[m.new_x].val])] : m \in {f}} : TRUE

\* _, new_P = unscented.stats_from_sigmas(new_local_sigmas, w)
update_rebased_P(f) ==
    CHOOSE g \in {
        LET r == Unscented_stats_from_sigmas(m.heap, m.new_local_sigmas, m.w)
        IN  [m EXCEPT !.heap = r.heap, !.new_P = r.P] : m \in {f}} : TRUE

\* update(x, P, R, z, statespace, unscented) on the arrays hp: the arrays
\* after the call and the references (new_x, new_P) it returns
update(hp, x, P, R, z, statespace, unscented, gain) ==
    update_rebased_P(update_rebase(update_new_sigmas(update_symmetrize(update_new_P(update_new_x(
    update_new_local_x(update_K(update_C(update_S_plus_R(update_S(update_observe(update_os(
    update_sigmas(update_local_x(
        [heap |-> hp, x |-> x, P |-> P, R |-> R, z |-> z, statespace |-> statespace,
         unscented |-> unscented, gain |-> gain, local_x |-> 0, local_sigmas |-> 0, w |-> 0, os |-> 0,
         S |-> 0, C |-> 0, K |-> 0, new_local_x |-> 0, new_x |-> 0, new_P |-> 0,
         new_local_sigmas |-> 0])))))))))))))))


(***************************************************************************)
(* ukf.py: the facade                                                      *)
(***************************************************************************)
\* States.__init__
States(coil_distance, tip_distance) ==
    [coil_offset |-> Div(coil_distance, Fx(2)),
     tip_offset |-> tip_distance + Div(coil_distance, Fx(2))]

\* Unscented.__init__
Unscented(hh) == [h |-> hh]

linear_angular_ratio(tip_offset) == Mul(Div(Fx(1), tip_offset), Div(Fx(1), tip_offset))

\* the diagonal of Q: [Qx, Qv, Qu, c Qx, c Qv, c Qu], each repeated three times
create_transition_cov(tip_offset) ==
    LET Qx == Dec(Fx(1), -12)
        Qv == Dec(Fx(1), 0)
        Qu == Dec(Fx(1), 0)
        c == Dec(linear_angular_ratio(tip_offset), 0)
        Q == <<Qx, Qv, Qu, DecMul(c, Qx), DecMul(c, Qv), DecMul(c, Qu)>>
    IN  Array([i \in 1..18 |-> Q[(i - 1) \div 3 + 1]])

create_measurement_cov ==
    Array([i \in 1..6 |-> Array([j \in 1..6 |->
        DecMul(Dec(Fx(1), -3),
               IF i = j THEN Dec(Fx(1), 0)
               ELSE IF Abs(i - j) = 3 THEN Dec(6 * 1000, 0)
               ELSE Dec(0, 0))])])

EmptyHeap == Array([r \in Refs |-> FreeCell])

\* s = statespace.States(coil_distance, tip_distance);
\* u = unscented.Unscented(h); self._ukf = riemannian_ukf.RiemannianUKF(s, u)
init_ukf(f) ==
    CHOOSE g \in {
        [m EXCEPT !.statespace = States(m.coil_distance, m.tip_distance), !.unscented = Unscented(m.h)] : m \in {f}} : TRUE

\* self.Q = self._create_transition_cov(s.tip_offset)
init_Q(f) ==
    CHOOSE g \in {
        LET a == Alloc(m.heap, "noise", create_transition_cov(m.statespace.tip_offset))
        IN  [m EXCEPT !.heap = a.heap, !.Q = a.ref] : m \in {f}} : TRUE

\* self.R = self._create_measurement_cov()
init_R(f) ==
    CHOOSE g \in {
        LET a == Alloc(m.heap, "noise", create_measurement_cov)
        IN  [m EXCEPT !.heap = a.heap, !.R = a.ref] : m \in {f}} : TRUE

\* UKF.__init__: the arrays and the attributes of the instance
UKF_init(coil_distance, tip_distance, hh) ==
    init_R(init_Q(init_ukf(
        [heap |-> EmptyHeap, coil_distance |-> coil_distance, tip_distance |-> tip_distance, h |-> hh,
        statespace |-> <<>>, unscented |-> <<>>, Q |-> 0, R |-> 0])))

UKF_predict(hp, self, x, P, dt) ==
    LET r == predict(hp, x, P, self.Q, dt, self.statespace, self.unscented)
    IN  [heap |-> r.heap, x |-> r.xt, P |-> r.ret]

UKF_update(hp, self, x, P, z, gain) ==
    LET r == update(hp, x, P, self.R, z, self.statespace, self.unscented, gain)
    IN  [heap |-> r.heap, x |-> r.new_x, P |-> r.new_P]

\* filter with `x, _ = self.predict(x, P, dt)`
filter_rebind_x_only(fr, r) == [fr EXCEPT !.x = r.x]

\* the locals of filter after `x, P = self.predict(x, P, dt)`
filter_rebind(fr, r) == [fr EXCEPT !.x = r.x, !.P = r.P]

\* estimate_initial_state with p = dist_coord
estimate_x_at_coil(f) ==
    CHOOSE g \in {
        LET d0 == VScale(Half, VSub(m.dist_coord, m.prox_coord))
            d == VDivS(d0, Norm(d0))
            a == Alloc(m.heap, "state", m.dist_coord \o Zero3 \o Zero3 \o d \o Zero3 \o Zero3)
        IN  [m EXCEPT !.heap = a.heap, !.x = a.ref] : m \in {f}} : TRUE

\* p = 0.5*(dist_coord+prox_coord); d = 0.5*(dist_coord-prox_coord);
\* d = d / numpy.linalg.norm(d, ord=2);
\* x = numpy.concatenate((p, numpy.zeros(6), d, numpy.zeros(6)))
estimate_x(f) ==
    CHOOSE g \in {
        LET p == VScale(Half, VAdd(m.dist_coord, m.prox_coord))
            d0 == VScale(Half, VSub(m.dist_coord, m.prox_coord))
            d == VDivS(d0, Norm(d0))
            a == Alloc(m.heap, "state", p \o Zero3 \o Zero3 \o d \o Zero3 \o Zero3)
        IN  [m EXCEPT !.heap = a.heap, !.x = a.ref] : m \in {f}} : TRUE

\* Px, Pv, Pu = 1, 1, 1; c = self._linear_angular_ratio(tip_offset);
\* P = numpy.diag(numpy.repeat(numpy.concatenate((P, c * P)), 3))
estimate_P(f) ==
    CHOOSE g \in {
        LET c == linear_angular_ratio(m.tip_offset)
            D == <<Fx(1), Fx(1), Fx(1), Mul(c, Fx(1)), Mul(c, Fx(1)), Mul(c, Fx(1))>>
            a == Alloc(m.heap, "cov", Cov(Array([i \in 1..18 |-> D[(i - 1) \div 3 + 1]]), <<>>))
        IN  [m EXCEPT !.heap = a.heap, !.P = a.ref] : m \in {f}} : TRUE

\* estimate_initial_state(dist_coord, prox_coord) on the arrays hp: the
\* arrays after the call and the references (x, P) it returns
UKF_estimate_initial_state(hp, self, dist_coord, prox_coord) ==
    estimate_P(estimate_x(
        [heap |-> hp, tip_offset |-> self.statespace.tip_offset, dist_coord |-> dist_coord,
        prox_coord |-> prox_coord, x |-> 0, P |-> 0]))

(***************************************************************************)
(* A tracking loop around one UKF instance: it holds a state x, a          *)
(* covariance P and an observation z, calls predict, update or filter on   *)
(* them and binds x and P to the pair returned.                            *)
(***************************************************************************)
NoFrame == [x |-> 0, P |-> 0, z |-> 0, dt |-> 0]

NoRet == [x |-> 0, P |-> 0]

NoCall == [fn |-> "none", x |-> <<>>, P |-> NoCov, z |-> <<>>, dt |-> 0, K |-> <<>>]

\* the values of the arguments on entry to a call
Entry(fn, dt, K) ==
    [fn |-> fn, x |-> heap[caller.x].val, P |-> heap[caller.P].val, z |-> heap[caller.z].val,
     dt |-> dt, K |-> K]

\* x, P = ukf.estimate_initial_state(z[0:3], z[3:6]), up to the return
EstimateInitialState ==
    /\ pc = "idle"
    /\ call.fn = "none"
    /\ \E zv \in {heap[caller.z].val} :
       \E r \in {UKF_estimate_initial_state(heap, ukf, SubSeq(zv, 1, 3), SubSeq(zv, 4, 6))} :
           /\ heap' = Return(heap, r.heap, {r.x, r.P})
           /\ ret' = [x |-> r.x, P |-> r.P]
           /\ call' = [NoCall EXCEPT !.fn = "estimate_initial_state", !.z = zv]
    /\ pc' = "returned"
    /\ UNCHANGED <<ukf, caller, frame, ncalls, harnessVars>>

\* ukf.predict(x, P, dt), up to the return
Predict(dt, limit) ==
    /\ pc = "idle"
    /\ ncalls < limit
    /\ caller.x # 0
    /\ \E r \in {UKF_predict(heap, ukf, caller.x, caller.P, dt)} :
           /\ heap' = Return(heap, r.heap, {r.x, r.P})
           /\ ret' = [x |-> r.x, P |-> r.P]
    /\ call' = Entry("predict", dt, <<>>)
    /\ pc' = "returned"
    /\ ncalls' = ncalls + 1
    /\ UNCHANGED <<ukf, caller, frame, harnessVars>>

\* ukf.update(x, P, z), up to the return
Update(gain, limit) ==
    /\ pc = "idle"
    /\ ncalls < limit
    /\ caller.x # 0
    /\ \E r \in {UKF_update(heap, ukf, caller.x, caller.P, caller.z, gain)} :
           /\ heap' = Return(heap, r.heap, {r.x, r.P})
           /\ ret' = [x |-> r.x, P |-> r.P]
    /\ call' = Entry("update", 0, gain)
    /\ pc' = "returned"
    /\ ncalls' = ncalls + 1
    /\ UNCHANGED <<ukf, caller, frame, harnessVars>>

\* ukf.filter(x, P, z, dt), first statement: x, P = self.predict(x, P, dt)
FilterPredict(dt, limit) ==
    /\ pc = "idle"
    /\ ncalls < limit
    /\ caller.x # 0
    /\ \E r \in {UKF_predict(heap, ukf, caller.x, caller.P, dt)} :
           /\ heap' = Return(heap, r.heap, {r.x, r.P})
           /\ frame' = filter_rebind([x |-> caller.x, P |-> caller.P, z |-> caller.z, dt |-> dt], r)
    /\ call' = Entry("filter", dt, <<>>)
    /\ pc' = "filter_update"
    /\ ncalls' = ncalls + 1
    /\ UNCHANGED <<ukf, caller, ret, harnessVars>>

\* ukf.filter(x, P, z, dt), second statement: return self.update(x, P, z);
\* the locals of filter go with its frame
FilterUpdate(gain) ==
    /\ pc = "filter_update"
    /\ \E r \in {UKF_update(heap, ukf, frame.x, frame.P, frame.z, gain)} :
           /\ heap' = Drop(Return(heap, r.heap, {r.x, r.P}),
                            {frame.x, frame.P} \ {caller.x, caller.P, r.x, r.P})
           /\ ret' = [x |-> r.x, P |-> r.P]
    /\ call' = [call EXCEPT !.K = gain]
    /\ pc' = "returned"
    /\ frame' = NoFrame
    /\ UNCHANGED <<ukf, caller, ncalls, harnessVars>>

\* the loop binds x and P to the pair returned; the arrays they were bound
\* to are dropped
Rebind ==
    /\ pc = "returned"
    /\ caller' = [caller EXCEPT !.x = ret.x, !.P = ret.P]
    /\ heap' = Drop(heap, {caller.x, caller.P} \ {ret.x, ret.P})
    /\ ret' = NoRet
    /\ pc' = "idle"
    /\ UNCHANGED <<ukf, frame, ncalls, call, harnessVars>>

\* block gains: row block k of the gain is [c[k][1] I, c[k][2] I]
BlockGain(c) ==
    Array([i \in 1..18 |-> Array([j \in 1..6 |->
        IF j = ((i - 1) % 3) + 1 THEN c[(i - 1) \div 3 + 1][1]
        ELSE IF j = ((i - 1) % 3) + 4 THEN c[(i - 1) \div 3 + 1][2]
        ELSE 0])])

\* no correction; the midpoint and the direction of the two coils (coils
\* 7.8 apart); a dense gain that also corrects v, a, w, u and whose
\* direction correction is not tangent
GainList ==
    << BlockGain(<< <<0, 0>>, <<0, 0>>, <<0, 0>>, <<0, 0>>, <<0, 0>>, <<0, 0>> >>),
       BlockGain(<< <<Half, Half>>, <<0, 0>>, <<0, 0>>, <<1282, -1282>>, <<0, 0>>, <<0, 0>> >>),
       BlockGain(<< <<6000, 3000>>, <<2000, 1000>>, <<500, 500>>, <<1000, -600>>, <<400, -300>>, <<100, 200>> >>) >>

Gains == {GainList[i] : i \in DOMAIN GainList}

Dts == {Half, Fx(1)}

MaxCalls == 2

DefaultConfig == [coil_distance |-> 78 * 1000, tip_distance |-> 90 * 1000, h |-> DefaultH]

Configs == {DefaultConfig, [coil_distance |-> Fx(2), tip_distance |-> Fx(3), h |-> Rat(1, 2)]}

\* a moving state on the manifold with the observation of a state at rest
\* nearby, and a state off the manifold (q of norm 1.5, w and u with a
\* component along q) with an observation far from it
Inputs ==
    { [x |-> pack_global_state(TestX, <<4000, -5000, 6000>>, <<1000, 0, -1000>>,
                               Dirs[4], <<3000, -5000, 4000>>, <<0, 2000, -3000>>),
       z |-> observe_state(TestX \o Zero3 \o Zero3 \o Dirs[4] \o Zero3 \o Zero3, 39 * 1000)],
      [x |-> pack_local_state(<<0, -Fx(1), Half>>, <<-2000, 0, 3000>>, Zero3,
                              <<12000, -9000, 0>>, <<3000, 2000, 1000>>, <<1000, 0, 2000>>),
       z |-> <<48000, 26000, 33000, -27000, 15000, 28000>>] }

InitUKF ==
    /\ op = "ukf"
    /\ mid = <<>>
    /\ out = <<>>
    /\ \E cfg \in Configs, io \in Inputs :
       \E c \in {UKF_init(cfg.coil_distance, cfg.tip_distance, cfg.h)} :
       \E a1 \in {Alloc(c.heap, "state", io.x)} :
       \E a2 \in {Alloc(a1.heap, "cov", Cov(Array([i \in 1..18 |-> Fx(1)]), <<>>))} :
       \E a3 \in {Alloc(a2.heap, "obs", io.z)} :
          /\ inp = [x |-> io.x, z |-> io.z, cfg |-> cfg]
          /\ ukf = [statespace |-> c.statespace, unscented |-> c.unscented, Q |-> c.Q, R |-> c.R]
          /\ heap = a3.heap
          /\ caller = [x |-> a1.ref, P |-> a2.ref, z |-> a3.ref]
    /\ frame = NoFrame
    /\ pc = "idle"
    /\ ret = NoRet
    /\ ncalls = 0
    /\ call = NoCall

NextUKF ==
    \/ EstimateInitialState
    \/ \E dt \in Dts : Predict(dt, MaxCalls)
    \/ \E gain \in Gains : Update(gain, MaxCalls)
    \/ \E dt \in Dts : FilterPredict(dt, MaxCalls)
    \/ \E gain \in Gains : FilterUpdate(gain)
    \/ Rebind

SpecUKF == InitUKF /\ [][NextUKF]_vars

(***************************************************************************)
(* What a call returns, computed on its arguments alone: an instance built *)
(* anew with the configuration cfg, and arrays holding the values xv, Pv,  *)
(* zv.                                                                     *)
(***************************************************************************)
Fresh(cfg, xv, Pv, zv) ==
    CHOOSE g \in {
        LET a1 == Alloc(c.heap, "state", xv)
            a2 == Alloc(a1.heap, "cov", Pv)
            a3 == Alloc(a2.heap, "obs", zv)
        IN  [self |-> [statespace |-> c.statespace, unscented |-> c.unscented, Q |-> c.Q, R |-> c.R],
             heap |-> a3.heap, x |-> a1.ref, P |-> a2.ref, z |-> a3.ref]
        : c \in {UKF_init(cfg.coil_distance, cfg.tip_distance, cfg.h)}} : TRUE

\* the values of the pair r of a call
Values(r) == [x |-> r.heap[r.x].val, P |-> r.heap[r.P].val]

\* update(predict(x, P, dt), z) on the arrays hp of the instance self
UpdateOfPredict(hp, self, x, P, z, dt, gain) ==
    CHOOSE g \in {
        UKF_update(Return(hp, r.heap, {r.x, r.P}), self, r.x, r.P, z, gain)
        : r \in {UKF_predict(hp, self, x, P, dt)}} : TRUE

\* what the call c returns on the arrays of w
Result(c, w) ==
    IF c.fn = "predict" THEN Values(UKF_predict(w.heap, w.self, w.x, w.P, c.dt))
    ELSE IF c.fn = "update" THEN Values(UKF_update(w.heap, w.self, w.x, w.P, w.z, c.K))
    ELSE Values(UpdateOfPredict(w.heap, w.self, w.x, w.P, w.z, c.dt, c.K))

Calls == {"predict", "update", "filter"}

\* the arrays the caller and the instance hold
Held == {caller.x, caller.P, caller.z, ukf.Q, ukf.R}

\* C1: whatever state with q # 0 the sequence of predict, update and filter
\* calls started from, the state every call returns is on the manifold:
\* |q| = 1, w.q = 0 and u.q = 0
C1_ReturnedOnManifold ==
    (pc = "returned" /\ call.fn \in Calls) => OnManifold(heap[ret.x].val)

\* the second call of a sequence that started off the manifold returns, with
\* a dense gain whose direction correction is not tangent
C1_Witness ==
    /\ pc = "returned"
    /\ ncalls = MaxCalls
    /\ call.fn \in {"update", "filter"}
    /\ call.K = GainList[3]
    /\ ~OnManifold(inp.x)
    /\ sq(inp.x) # Zero3
    /\ heap[ret.x].val # call.x
    /\ OnManifold(heap[ret.x].val)

\* C6: while a predict, update or filter call runs and when it has returned,
\* the configuration of the instance (Q, R, coil_offset, tip_offset, h) is
\* what the constructor built and the arrays x, P, z passed to the call hold
\* what they held on entry; the pair returned is two new arrays, and their
\* values are what the call returns on its arguments alone, on an instance
\* of that configuration that has made no call before
C6_CallsArePure ==
    (pc \in {"filter_update", "returned"} /\ call.fn \in Calls) =>
        /\ ukf.statespace = States(inp.cfg.coil_distance, inp.cfg.tip_distance)
        /\ ukf.unscented = Unscented(inp.cfg.h)
        /\ heap[ukf.Q].val = create_transition_cov(ukf.statespace.tip_offset)
        /\ heap[ukf.R].val = create_measurement_cov
        /\ heap[caller.x].val = call.x
        /\ heap[caller.P].val = call.P
        /\ heap[caller.z].val = call.z
        /\ pc = "returned" =>
              /\ ret.x # ret.P
              /\ {ret.x, ret.P} \cap Held = {}
              /\ heap[ret.x].kind = "state"
              /\ heap[ret.P].kind = "cov"
              /\ [x |-> heap[ret.x].val, P |-> heap[ret.P].val]
                     = Result(call, Fresh(inp.cfg, call.x, call.P, call.z))

\* the second call of a sequence, an update, returns a state and a covariance
\* that differ from the ones passed to it
C6_Witness ==
    /\ pc = "returned"
    /\ ncalls = MaxCalls
    /\ call.fn = "update"
    /\ call.K = GainList[2]
    /\ heap[ret.x].val # call.x
    /\ heap[ret.P].val # call.P
    /\ heap[caller.x].val = call.x
    /\ heap[caller.P].val = call.P

\* C7: filter(x, P, z, dt) returns what update(x1, P1, z) returns for
\* (x1, P1) = predict(x, P, dt); between its two statements x and P are the
\* pair predict returns with the Q of the instance and z is the z passed
C7_FilterIsUpdateOfPredict ==
    /\ pc = "filter_update" =>
          /\ frame.z = caller.z
          /\ [x |-> heap[frame.x].val, P |-> heap[frame.P].val]
                 = Values(UKF_predict(Drop(heap, {frame.x, frame.P} \ Held), ukf, caller.x, caller.P, call.dt))
    /\ (pc = "returned" /\ call.fn = "filter") =>
          [x |-> heap[ret.x].val, P |-> heap[ret.P].val]
              = Values(UpdateOfPredict(Drop(heap, {ret.x, ret.P} \ Held), ukf, caller.x, caller.P,
                                       caller.z, call.dt, call.K))

\* a filter call returns a state that predict moved and update corrected,
\* with the covariance that went through both
C7_Witness ==
    /\ pc = "returned"
    /\ call.fn = "filter"
    /\ call.K = GainList[2]
    /\ heap[ret.x].val # call.x
    /\ heap[ret.x].val # evolve_state(call.x, call.dt)
    /\ heap[ret.P].val.older = 0
    /\ Len(heap[ret.P].val.hist) = Len(call.P.hist) + 4

(***************************************************************************)
(* The stationary catheter: the default filter, seeded by                  *)
(* estimate_initial_state from the two coil positions of a true state at   *)
(* rest with direction e1, and run on the exact observation of that state. *)
(***************************************************************************)
MinIterations == 100

MaxIterations == MinIterations + 2

E1 == <<Fx(1), 0, 0>>

TrueStates == {pack_global_state(p, Zero3, Zero3, E1, Zero3, Zero3) : p \in {Zero3, TestX}}

\* the gains of successive updates
GainSchedules == {<<GainList[1]>>, <<GainList[2]>>, <<GainList[1], GainList[2], GainList[3]>>}

InitStationary ==
    /\ op = "stationary"
    /\ mid = <<>>
    /\ out = <<>>
    /\ \E t \in TrueStates, dt \in Dts, ks \in GainSchedules :
       \E c \in {UKF_init(DefaultConfig.coil_distance, DefaultConfig.tip_distance, DefaultConfig.h)} :
       \E a \in {Alloc(c.heap, "obs", observe_state(t, c.statespace.coil_offset))} :
          /\ inp = [truth |-> t, dt |-> dt, gains |-> ks, cfg |-> DefaultConfig]
          /\ ukf = [statespace |-> c.statespace, unscented |-> c.unscented, Q |-> c.Q, R |-> c.R]
          /\ heap = a.heap
          /\ caller = [x |-> 0, P |-> 0, z |-> a.ref]
    /\ frame = NoFrame
    /\ pc = "idle"
    /\ ret = NoRet
    /\ ncalls = 0
    /\ call = NoCall

\* x, P = ukf.estimate_initial_state(...), then for every frame
\* x, P = ukf.filter(x, P, z, dt)
NextStationary ==
    \/ EstimateInitialState
    \/ FilterPredict(inp.dt, MaxIterations)
    \/ FilterUpdate(inp.gains[((ncalls - 1) % Len(inp.gains)) + 1])
    \/ Rebind

SpecStationary == InitStationary /\ [][NextStationary]_vars

\* C5: from the 100th filter call on, the position and the direction of the
\* estimate are those of the true state (a residual below 1e-6 is no
\* residual at the precision of the arithmetic)
C5_StationaryResidual ==
    (pc = "returned" /\ call.fn = "filter" /\ ncalls >= MinIterations) =>
        /\ sx(heap[ret.x].val) = sx(inp.truth)
        /\ sq(heap[ret.x].val) = sq(inp.truth)

\* the 100th filter call has returned, with updates whose gains were not zero
C5_Witness ==
    /\ pc = "returned"
    /\ call.fn = "filter"
    /\ ncalls = MinIterations
    /\ Len(inp.gains) > 1
    /\ sx(inp.truth) # Zero3
    /\ heap[caller.z].val = observe_state(inp.truth, ukf.statespace.coil_offset)
    /\ sx(heap[ret.x].val) = sx(inp.truth)

(***************************************************************************)
(* The chart of a covariance: every transformation of a covariance         *)
(* records the base its sigma points were lifted at and the base they, or  *)
(* the noise added, were projected at.                                     *)
(***************************************************************************)
\* the transformations the last call applied to the covariance it was passed
NewEvents ==
    SubSeq(heap[ret.P].val.hist, Len(call.P.hist) + 1, Len(heap[ret.P].val.hist))

\* the transformations of predict(x, P, .) returning xt: the sigma points
\* of P lifted at x and projected at xt, then the noise projected at xt
PredictEvents(e, x, xt) ==
    /\ Len(e) = 2
    /\ e[1].fn = "evolve"
    /\ e[1].lift = x
    /\ e[1].proj = xt
    /\ e[2].fn = "add_noise"
    /\ e[2].proj = xt

\* the transformations of update(x, P, .) returning new_x: the correction
\* from the sigma points of P lifted at x, then the sigma points of the
\* corrected covariance lifted at x and projected at new_x
UpdateEvents(e, x, new_x) ==
    /\ Len(e) = 2
    /\ e[1].fn = "correct"
    /\ e[1].lift = x
    /\ e[2].fn = "rebase"
    /\ e[2].lift = x
    /\ e[2].proj = new_x

\* C11: the covariance a predict, update or filter call returns was
\* computed from sigma points lifted at the state passed to the call (for
\* the update inside filter, the state predict returned) and projected at
\* the state the call returns, with predict's noise projected at the state
\* predict returns: it is expressed in the chart of the returned state
C11_CovarianceInReturnedChart ==
    (pc = "returned" /\ call.fn \in Calls) =>
        /\ heap[ret.P].val.older = call.P.older
        /\ SubSeq(heap[ret.P].val.hist, 1, Len(call.P.hist)) = call.P.hist
        /\ call.fn = "predict" => PredictEvents(NewEvents, call.x, heap[ret.x].val)
        /\ call.fn = "update" => UpdateEvents(NewEvents, call.x, heap[ret.x].val)
        /\ call.fn = "filter" =>
              /\ Len(NewEvents) = 4
              /\ PredictEvents(SubSeq(NewEvents, 1, 2), call.x, evolve_state(call.x, call.dt))
              /\ UpdateEvents(SubSeq(NewEvents, 3, 4), evolve_state(call.x, call.dt), heap[ret.x].val)

\* the second call of a sequence, a filter call with a dense gain, returns
\* a state that is neither the state passed nor the state predicted, and a
\* covariance whose last transformation projected at the state returned
C11_Witness ==
    /\ pc = "returned"
    /\ ncalls = MaxCalls
    /\ call.fn = "filter"
    /\ call.K = GainList[3]
    /\ Len(call.P.hist) > 0
    /\ heap[ret.x].val # call.x
    /\ heap[ret.x].val # evolve_state(call.x, call.dt)
    /\ NewEvents[4].proj = heap[ret.x].val
    /\ NewEvents[4].lift = NewEvents[1].proj

(***************************************************************************)
(* The sigma points of a diagonal covariance, in fixed point: the square   *)
(* root of a diagonal matrix is the diagonal of the square roots.          *)
(***************************************************************************)
\* the square root of the fixed-point number a >= 0
Sqrt(a) == ISqrt(a * SCALE)

\* the rational r in fixed point
FxOfRat(r) == (r[1] * SCALE) \div r[2]

\* sigmas_from_stats(x, numpy.diag(d), hh): the columns x, and x + c_i,
\* x - c_i for every column c_i of sqrtm((M + hh) * numpy.diag(d))
diag_sigmas(x, d, hh) ==
    LET M == Len(d)
        sqrt_Q == Array([i \in 1..M |-> Sqrt(Mul(Fx(M) + FxOfRat(hh), d[i]))])
    IN  Array([c \in 1..(2 * M + 1) |->
            IF c = 1 THEN x
            ELSE Array([i \in 1..M |->
                     IF i # c \div 2 THEN x[i]
                     ELSE IF c % 2 = 0 THEN x[i] + sqrt_Q[i] ELSE x[i] - sqrt_Q[i]])])

\* lq . b.q = 0 for the local vector l handled at the base b
TangentAt(b, l) == Abs(Dot(sq(l), sq(b))) <= Tol

\* the last call was passed the pair estimate_initial_state returns for
\* the two coil positions in the z it was passed
FromEstimate ==
    /\ call.fn \in Calls
    /\ call.P.hist = <<>>
    /\ [x |-> call.x, P |-> call.P]
           = Values(UKF_estimate_initial_state(heap, ukf, SubSeq(call.z, 1, 3), SubSeq(call.z, 4, 6)))

\* the sigma points the last call generated from the (x, P) passed to it and
\* passed to local_to_global(x, .)
FirstSigmas == diag_sigmas(local_identity(call.x), call.P.init, ukf.unscented.h)

\* every output of global_to_local is tangent at its base
C12_ChartOutputsTangent ==
    /\ op = "global_to_local" => TangentAt(inp.base, mid)
    /\ op = "global_to_local.local_to_global" => TangentAt(inp.base, out)

\* C12: every local vector handled at a base b has lq . b.q = 0: the outputs
\* of global_to_local and, in a filter started from the (x, P) that
\* estimate_initial_state returns, the sigma points that predict and update
\* pass to local_to_global(x, .).  (The gain is a parameter of the model, so
\* the model does not say which K y the code computes.)
C12_LocalVectorsTangent ==
    /\ C12_ChartOutputsTangent
    /\ (pc \in {"filter_update", "returned"} /\ FromEstimate) =>
           \A c \in 1..Len(FirstSigmas) : TangentAt(call.x, FirstSigmas[c])

\* predict has returned from the pair of estimate_initial_state, and a sigma
\* point it lifted at x had an lq along x.q
C12_Witness ==
    /\ pc = "returned"
    /\ call.fn = "predict"
    /\ FromEstimate
    /\ inp.cfg = DefaultConfig
    /\ OnManifold(call.x)
    /\ \E c \in 1..Len(FirstSigmas) : Abs(Dot(sq(FirstSigmas[c]), sq(call.x))) > Fx(1) \div 10
    /\ OnManifold(heap[ret.x].val)

=============================================================================
